---- MODULE Spec2Model ----
(***************************************************************************)
(* Model of the mupen64-movie-parser crate: the controller bitfield codecs *)
(* (controller.rs) and the M64 reader/writer (m64.rs).                     *)
(* Bytes are naturals in 0..255, buffers are sequences of bytes (TLA+      *)
(* sequences are 1-based, so file offset k is element k+1).                *)
(***************************************************************************)
EXTENDS Integers, Sequences, FiniteSets, TLC

VARIABLES
    pc,       \* position of the caller: "start", "decoded", "failed", "built", "written"
    data,     \* the byte buffer handed to M64::from_u8_array
    m64,      \* the M64 value held by the caller (NoM64 when there is none)
    err,      \* the M64ParseError returned by from_u8_array (NoError when none)
    written,  \* the bytes write_m64 pushed into the writer
    cin,      \* codec runs: the argument, tagged with its type
    cmid,     \* codec runs: the result of the first conversion
    cout,     \* codec runs: the result of converting back
    cpc       \* codec runs: "arg", "once", "twice" ("off" in the file runs)

vars == <<pc, data, m64, err, written, cin, cmid, cout, cpc>>

---------------------------------------------------------------------------
(* u32 arithmetic.  A u32 is held as its two 16-bit halves, [hi, lo], so   *)
(* that every intermediate value stays inside TLC's 32-bit integers; the    *)
(* operations below are the 32-bit ones (bits shifted out are lost).       *)

u32(hi, lo) == [hi |-> hi, lo |-> lo]

\* an integer literal or a widened u8/u16/bool (0..65535) as u32
u32_of(n) == u32(0, n)

\* u32::shr(n), 0 <= n < 32
shr(value, n) ==
    IF n >= 16 THEN u32(0, value.hi \div (2 ^ (n - 16)))
    ELSE u32(value.hi \div (2 ^ n),
             (value.lo \div (2 ^ n)) + (value.hi % (2 ^ n)) * (2 ^ (16 - n)))

\* u32 `<<` by 0 <= n < 32 (bits shifted past bit 31 are dropped)
shl(value, n) ==
    IF n >= 16 THEN u32((value.lo * (2 ^ (n - 16))) % 65536, 0)
    ELSE u32(((value.hi * (2 ^ n)) % 65536) + (value.lo \div (2 ^ (16 - n))),
             (value.lo * (2 ^ n)) % 65536)

RECURSIVE bitand(_, _, _)
bitand(a, b, n) ==
    IF n = 0 THEN 0
    ELSE (IF a % 2 = 1 /\ b % 2 = 1 THEN 1 ELSE 0) + 2 * bitand(a \div 2, b \div 2, n - 1)

RECURSIVE bitor(_, _, _)
bitor(a, b, n) ==
    IF n = 0 THEN 0
    ELSE (IF a % 2 = 1 \/ b % 2 = 1 THEN 1 ELSE 0) + 2 * bitor(a \div 2, b \div 2, n - 1)

\* u32 `&`
and32(a, b) == u32(bitand(a.hi, b.hi, 16), bitand(a.lo, b.lo, 16))

\* u32 `|`
or32(a, b) == u32(bitor(a.hi, b.hi, 16), bitor(a.lo, b.lo, 16))

\* `b as u32` for a bool
bool_as_u32(b) == IF b THEN u32_of(1) ELSE u32_of(0)

\* a cast that keeps the low 8 bits and leaves them unsigned
u32_as_u8(v) == v.lo % 256

\* `v as i8` for a u32: keep the low 8 bits, read them as two's complement
u32_as_i8(v) == LET b == v.lo % 256 IN IF b >= 128 THEN b - 256 ELSE b

\* `x as u32` for an i8: sign extension to 32 bits
i8_as_u32(x) == u32(IF x < 0 THEN 65535 ELSE 0, x % 65536)

---------------------------------------------------------------------------
(* controller.rs: Flags *)

nth_bit(value, n) == and32(shr(value, n), u32_of(1)) # u32_of(0)

\* Flags::from_u32 with the accessory bits read one position too high
Flags_from_u32_shifted(value) ==
    [k \in 1..4 |->
        [controller_present |-> nth_bit(value, k - 1),
         has_mempak         |-> nth_bit(value, k + 4),
         has_rumblepak      |-> nth_bit(value, k + 8)]]

\* Flags::from_u32; slots 0..3 of the Rust array are elements 1..4
Flags_from_u32(value) ==
    [k \in 1..4 |->
        [controller_present |-> nth_bit(value, k - 1),
         has_mempak         |-> nth_bit(value, (k - 1) + 4),
         has_rumblepak      |-> nth_bit(value, (k - 1) + 8)]]

RECURSIVE Flags_to_u32_loop(_, _, _)
Flags_to_u32_loop(controllers, k, value) ==
    IF k > 4 THEN value
    ELSE LET i  == k - 1
             v1 == or32(value, shl(bool_as_u32(controllers[k].controller_present), i))
             v2 == or32(v1, shl(bool_as_u32(controllers[k].has_mempak), i + 4))
             v3 == or32(v2, shl(bool_as_u32(controllers[k].has_rumblepak), i + 8))
         IN  Flags_to_u32_loop(controllers, k + 1, v3)

Flags_to_u32(controllers) == Flags_to_u32_loop(controllers, 1, u32_of(0))

---------------------------------------------------------------------------
(* controller.rs: Input *)

\* an Input::from that reads the buttons at the masks of the doc comment
\* (0x0001 C-Right .. 0x8000 A)
Input_from_u32_documented(value) ==
    [right_cbutton  |-> nth_bit(value, 0),
     left_cbutton   |-> nth_bit(value, 1),
     down_cbutton   |-> nth_bit(value, 2),
     up_cbutton     |-> nth_bit(value, 3),
     right_shoulder |-> nth_bit(value, 4),
     left_shoulder  |-> nth_bit(value, 5),
     reserved_1     |-> nth_bit(value, 6),
     reserved_2     |-> nth_bit(value, 7),
     right_dpad     |-> nth_bit(value, 8),
     left_dpad      |-> nth_bit(value, 9),
     down_dpad      |-> nth_bit(value, 10),
     up_dpad        |-> nth_bit(value, 11),
     start          |-> nth_bit(value, 12),
     z_button       |-> nth_bit(value, 13),
     b_button       |-> nth_bit(value, 14),
     a_button       |-> nth_bit(value, 15),
     x_axis         |-> u32_as_i8(and32(shr(value, 16), u32_of(255))),
     y_axis         |-> u32_as_i8(shr(value, 24))]

\* impl From<u32> for Input: one bit is tested, then the word is shifted
Input_from_u32(value) ==
    LET b(v) == and32(v, u32_of(1)) # u32_of(0)
        s1  == shr(value, 1)
        s2  == shr(s1, 1)
        s3  == shr(s2, 1)
        s4  == shr(s3, 1)
        s5  == shr(s4, 1)
        s6  == shr(s5, 1)
        s7  == shr(s6, 1)
        s8  == shr(s7, 1)
        s9  == shr(s8, 1)
        s10 == shr(s9, 1)
        s11 == shr(s10, 1)
        s12 == shr(s11, 1)
        s13 == shr(s12, 1)
        s14 == shr(s13, 1)
        s15 == shr(s14, 1)
        s16 == shr(s15, 1)
        s24 == shr(s16, 8)
    IN  [right_dpad     |-> b(value),
         left_dpad      |-> b(s1),
         down_dpad      |-> b(s2),
         up_dpad        |-> b(s3),
         start          |-> b(s4),
         z_button       |-> b(s5),
         b_button       |-> b(s6),
         a_button       |-> b(s7),
         right_cbutton  |-> b(s8),
         left_cbutton   |-> b(s9),
         down_cbutton   |-> b(s10),
         up_cbutton     |-> b(s11),
         right_shoulder |-> b(s12),
         left_shoulder  |-> b(s13),
         reserved_1     |-> b(s14),
         reserved_2     |-> b(s15),
         x_axis         |-> u32_as_i8(and32(s16, u32_of(255))),
         y_axis         |-> u32_as_i8(s24)]

\* From<Input> for u32 without the `& 0xFF` on the sign-extended x axis
u32_from_Input_unmasked(input) ==
    LET v0  == or32(u32_of(0), bool_as_u32(input.right_dpad))
        v1  == or32(v0, shl(bool_as_u32(input.left_dpad), 1))
        v2  == or32(v1, shl(bool_as_u32(input.down_dpad), 2))
        v3  == or32(v2, shl(bool_as_u32(input.up_dpad), 3))
        v4  == or32(v3, shl(bool_as_u32(input.start), 4))
        v5  == or32(v4, shl(bool_as_u32(input.z_button), 5))
        v6  == or32(v5, shl(bool_as_u32(input.b_button), 6))
        v7  == or32(v6, shl(bool_as_u32(input.a_button), 7))
        v8  == or32(v7, shl(bool_as_u32(input.right_cbutton), 8))
        v9  == or32(v8, shl(bool_as_u32(input.left_cbutton), 9))
        v10 == or32(v9, shl(bool_as_u32(input.down_cbutton), 10))
        v11 == or32(v10, shl(bool_as_u32(input.up_cbutton), 11))
        v12 == or32(v11, shl(bool_as_u32(input.right_shoulder), 12))
        v13 == or32(v12, shl(bool_as_u32(input.left_shoulder), 13))
        v14 == or32(v13, shl(bool_as_u32(input.reserved_1), 14))
        v15 == or32(v14, shl(bool_as_u32(input.reserved_2), 15))
        v16 == or32(v15, shl(i8_as_u32(input.x_axis), 16))
        v17 == or32(v16, shl(and32(i8_as_u32(input.y_axis), u32_of(255)), 24))
    IN  v17

\* a From<Input> for u32 that writes the buttons at the masks of the doc
\* comment (0x0001 C-Right .. 0x8000 A)
u32_from_Input_documented(input) ==
    LET v0  == or32(u32_of(0), bool_as_u32(input.right_cbutton))
        v1  == or32(v0, shl(bool_as_u32(input.left_cbutton), 1))
        v2  == or32(v1, shl(bool_as_u32(input.down_cbutton), 2))
        v3  == or32(v2, shl(bool_as_u32(input.up_cbutton), 3))
        v4  == or32(v3, shl(bool_as_u32(input.right_shoulder), 4))
        v5  == or32(v4, shl(bool_as_u32(input.left_shoulder), 5))
        v6  == or32(v5, shl(bool_as_u32(input.reserved_1), 6))
        v7  == or32(v6, shl(bool_as_u32(input.reserved_2), 7))
        v8  == or32(v7, shl(bool_as_u32(input.right_dpad), 8))
        v9  == or32(v8, shl(bool_as_u32(input.left_dpad), 9))
        v10 == or32(v9, shl(bool_as_u32(input.down_dpad), 10))
        v11 == or32(v10, shl(bool_as_u32(input.up_dpad), 11))
        v12 == or32(v11, shl(bool_as_u32(input.start), 12))
        v13 == or32(v12, shl(bool_as_u32(input.z_button), 13))
        v14 == or32(v13, shl(bool_as_u32(input.b_button), 14))
        v15 == or32(v14, shl(bool_as_u32(input.a_button), 15))
        v16 == or32(v15, shl(and32(i8_as_u32(input.x_axis), u32_of(255)), 16))
        v17 == or32(v16, shl(and32(i8_as_u32(input.y_axis), u32_of(255)), 24))
    IN  v17

\* impl From<Input> for u32
u32_from_Input(input) ==
    LET v0  == or32(u32_of(0), bool_as_u32(input.right_dpad))
        v1  == or32(v0, shl(bool_as_u32(input.left_dpad), 1))
        v2  == or32(v1, shl(bool_as_u32(input.down_dpad), 2))
        v3  == or32(v2, shl(bool_as_u32(input.up_dpad), 3))
        v4  == or32(v3, shl(bool_as_u32(input.start), 4))
        v5  == or32(v4, shl(bool_as_u32(input.z_button), 5))
        v6  == or32(v5, shl(bool_as_u32(input.b_button), 6))
        v7  == or32(v6, shl(bool_as_u32(input.a_button), 7))
        v8  == or32(v7, shl(bool_as_u32(input.right_cbutton), 8))
        v9  == or32(v8, shl(bool_as_u32(input.left_cbutton), 9))
        v10 == or32(v9, shl(bool_as_u32(input.down_cbutton), 10))
        v11 == or32(v10, shl(bool_as_u32(input.up_cbutton), 11))
        v12 == or32(v11, shl(bool_as_u32(input.right_shoulder), 12))
        v13 == or32(v12, shl(bool_as_u32(input.left_shoulder), 13))
        v14 == or32(v13, shl(bool_as_u32(input.reserved_1), 14))
        v15 == or32(v14, shl(bool_as_u32(input.reserved_2), 15))
        v16 == or32(v15, shl(and32(i8_as_u32(input.x_axis), u32_of(255)), 16))
        v17 == or32(v16, shl(and32(i8_as_u32(input.y_axis), u32_of(255)), 24))
    IN  v17

\* Input::default() (derive(Default)): every button released, both axes 0
Input_default ==
    [right_dpad |-> FALSE, left_dpad |-> FALSE, down_dpad |-> FALSE, up_dpad |-> FALSE,
     start |-> FALSE, z_button |-> FALSE, b_button |-> FALSE, a_button |-> FALSE,
     right_cbutton |-> FALSE, left_cbutton |-> FALSE, down_cbutton |-> FALSE,
     up_cbutton |-> FALSE, right_shoulder |-> FALSE, left_shoulder |-> FALSE,
     reserved_1 |-> FALSE, reserved_2 |-> FALSE, x_axis |-> 0, y_axis |-> 0]

---------------------------------------------------------------------------
(* nom (complete) combinators as m64.rs uses them.  A parser maps the      *)
(* remaining input to Ok(rest, val) or to an error holding the input the   *)
(* failing parser was given and nom's ErrorKind.                           *)

Ok(rest, val) == [ok |-> TRUE, rest |-> rest, val |-> val]
NomErr(input, code) == [ok |-> FALSE, input |-> input, code |-> code]

Drop(d, n) == SubSeq(d, n + 1, Len(d))

\* bytes::complete::take(n)
take(n, d) == IF Len(d) < n THEN NomErr(d, "Eof") ELSE Ok(Drop(d, n), SubSeq(d, 1, n))

\* bytes::complete::tag(t): a short input and a mismatch both give ErrorKind::Tag
tag(t, d) ==
    IF Len(d) >= Len(t) /\ SubSeq(d, 1, Len(t)) = t
    THEN Ok(Drop(d, Len(t)), t)
    ELSE NomErr(d, "Tag")

\* number::complete::u8
u8(d) == IF Len(d) < 1 THEN NomErr(d, "Eof") ELSE Ok(Drop(d, 1), d[1])

\* number::complete::le_u16
le_u16(d) == IF Len(d) < 2 THEN NomErr(d, "Eof") ELSE Ok(Drop(d, 2), d[1] + 256 * d[2])

\* number::complete::le_u32
le_u32(d) ==
    IF Len(d) < 4 THEN NomErr(d, "Eof")
    ELSE Ok(Drop(d, 4), u32(d[3] + 256 * d[4], d[1] + 256 * d[2]))

(* combinator::verify(p, cond), map_res(p, f) and map_opt(p, f) run p and    *)
(* pass its error on unchanged; when cond is false, f returns Err or f      *)
(* returns None they fail with ErrorKind::Verify, MapRes or MapOpt and the  *)
(* input p was given.  The parsers of m64.rs below spell this out.          *)

---------------------------------------------------------------------------
(* std::str::from_utf8: the well-formed byte sequences of UTF-8.  A string *)
(* is well formed when every byte is ASCII, a lead byte followed by the    *)
(* continuation bytes its length asks for, or a continuation byte that     *)
(* belongs to a lead byte before it.                                       *)

IsCont(b) == b \in 128..191

\* number of bytes of the character a lead byte starts (0: not a lead byte)
Utf8Width(b) ==
    IF b \in 194..223 THEN 2
    ELSE IF b \in 224..239 THEN 3
    ELSE IF b \in 240..244 THEN 4
    ELSE 0

\* what may follow a lead byte directly (no overlong forms, no surrogates,
\* nothing above U+10FFFF)
Utf8Second(b) ==
    IF b = 224 THEN 160..191
    ELSE IF b = 237 THEN 128..159
    ELSE IF b = 240 THEN 144..191
    ELSE IF b = 244 THEN 128..143
    ELSE 128..191

utf8_valid(s) ==
    \A i \in 1..Len(s) :
        LET b == s[i] IN
        IF b < 128 THEN TRUE
        ELSE IF Utf8Width(b) > 0
             THEN /\ i + Utf8Width(b) - 1 <= Len(s)
                  /\ s[i + 1] \in Utf8Second(b)
                  /\ \A k \in 2..(Utf8Width(b) - 1) : IsCont(s[i + k])
        ELSE IF IsCont(b)
             THEN \E k \in 1..3 :
                      /\ i - k >= 1
                      /\ Utf8Width(s[i - k]) > k
                      /\ \A j \in 1..(k - 1) : IsCont(s[i - j])
        ELSE FALSE

\* std::str::from_utf8(s): Ok(the same bytes, as a str) or Err(Utf8Error)
from_utf8(s) == IF utf8_valid(s) THEN [ok |-> TRUE, val |-> s] ELSE [ok |-> FALSE]

\* an ArrayString that cannot be filled to its capacity
ArrayString_from_below_capacity(cap, s) ==
    IF Len(s) < cap THEN [ok |-> TRUE, val |-> s] ELSE [ok |-> FALSE]

\* ArrayString::<cap>::from(s): Err(CapacityError) when s does not fit
ArrayString_from(cap, s) == IF Len(s) <= cap THEN [ok |-> TRUE, val |-> s] ELSE [ok |-> FALSE]

---------------------------------------------------------------------------
(* m64.rs: MovieStartType *)

\* the enum with Eeprom = 3 instead of 4
MovieStartType_from_repr_dense(value) ==
    IF value = 1 THEN [ok |-> TRUE, val |-> "SnapShot"]
    ELSE IF value = 2 THEN [ok |-> TRUE, val |-> "PowerOn"]
    ELSE IF value = 3 THEN [ok |-> TRUE, val |-> "Eeprom"]
    ELSE [ok |-> FALSE]

\* the discriminants of the enum (derive(FromRepr))
MovieStartType_from_repr(value) ==
    IF value = 1 THEN [ok |-> TRUE, val |-> "SnapShot"]
    ELSE IF value = 2 THEN [ok |-> TRUE, val |-> "PowerOn"]
    ELSE IF value = 4 THEN [ok |-> TRUE, val |-> "Eeprom"]
    ELSE [ok |-> FALSE]

\* impl TryFrom<u16> for MovieStartType
MovieStartType_try_from(value) == MovieStartType_from_repr(value)

\* `self.movie_start_type as u16`
MovieStartType_as_u16(t) ==
    IF t = "SnapShot" THEN 1 ELSE IF t = "PowerOn" THEN 2 ELSE 4

\* impl Default for MovieStartType
MovieStartType_default == "PowerOn"

---------------------------------------------------------------------------
(* m64.rs: M64ParseError, the enum from_u8_array returns *)

InvalidFileSignature(bytes) == [kind |-> "InvalidFileSignature", bytes |-> bytes]
InvalidVersion(v) == [kind |-> "InvalidVersion", version |-> v]
ReservedNotZero == [kind |-> "ReservedNotZero"]
NotEnoughData(expected, actual) ==
    [kind |-> "NotEnoughData", expected |-> expected, actual |-> actual]
InvalidMovieStartType == [kind |-> "InvalidMovieStartType"]
InvalidString == [kind |-> "InvalidString"]

\* unimplemented!() in an error mapping, or unwrap() on an Err: the call panics
Panic == [kind |-> "panic"]

\* `?` on an Err: from_u8_array returns the mapped error
Bad(e) == [ok |-> FALSE, error |-> e]

---------------------------------------------------------------------------
(* m64.rs: the parsers from_u8_array defines *)

\* a signature parser that skips four bytes without comparing them
signature_unchecked(d) == take(4, d)

signature(d) == tag(<<77, 54, 52, 26>>, d)

\* map_res(le_u16, MovieStartType::try_from)
movie_start_type(d) ==
    LET r == le_u16(d) IN
    IF ~r.ok THEN r
    ELSE LET o == MovieStartType_try_from(r.val) IN
         IF o.ok THEN Ok(r.rest, o.val) ELSE NomErr(d, "MapRes")

\* map_opt(le_u32, |b| Some(Flags::from_u32(b)))
controller_flags(d) ==
    LET r == le_u32(d) IN
    IF ~r.ok THEN r ELSE Ok(r.rest, Flags_from_u32(r.val))

\* map_res(take(n), std::str::from_utf8)
array_string(n, d) ==
    LET r == take(n, d) IN
    IF ~r.ok THEN r
    ELSE LET o == from_utf8(r.val) IN
         IF o.ok THEN Ok(r.rest, o.val) ELSE NomErr(d, "MapRes")

\* map_res(take(64), |s| Ok(ArrayString::<64>::from(from_utf8(s)?).unwrap())):
\* the value is the ArrayString::from result, unwrapped by the caller
array_string_64(d) ==
    LET r == take(64, d) IN
    IF ~r.ok THEN r
    ELSE LET o == from_utf8(r.val) IN
         IF o.ok THEN Ok(r.rest, ArrayString_from(64, o.val)) ELSE NomErr(d, "MapRes")

\* the input parser reading its word big-endian
input_be(d) ==
    IF Len(d) < 4 THEN NomErr(d, "Eof")
    ELSE Ok(Drop(d, 4), Input_from_u32(u32(d[2] + 256 * d[1], d[4] + 256 * d[3])))

\* map_opt(le_u32, |i| Some(Input::from(i)))
input(d) ==
    LET r == le_u32(d) IN
    IF ~r.ok THEN r ELSE Ok(r.rest, Input_from_u32(r.val))

\* verify(le_u32, |version| *version == 3)
version_verify(d) ==
    LET r == le_u32(d) IN
    IF ~r.ok THEN r ELSE IF r.val = u32_of(3) THEN r ELSE NomErr(d, "Verify")

\* verify(take(bytes), |v| v.iter().all(|&b| b == 0))
reserved_check(bytes, d) ==
    LET r == take(bytes, d) IN
    IF ~r.ok THEN r
    ELSE IF \A i \in 1..Len(r.val) : r.val[i] = 0 THEN r ELSE NomErr(d, "Verify")

\* multi::many0(input): collect until input fails; an Error ends the loop with Ok
RECURSIVE many0_input(_, _)
many0_input(d, acc) ==
    LET r == input(d) IN
    IF ~r.ok THEN Ok(d, acc)
    ELSE IF Len(r.rest) = Len(d) THEN NomErr(d, "Many0")
    ELSE many0_input(r.rest, Append(acc, r.val))

---------------------------------------------------------------------------
(* m64.rs: from_u8_array, one definition per `let (data, ..) = ..?;` *)

\* u32::from_le_bytes
u32_from_le_bytes(b) == u32(b[3] + 256 * b[4], b[1] + 256 * b[2])

\* a signature stage that looks at the length of the whole buffer first
parse_signature_length_first(d) ==
    IF Len(d) < 1024 \/ Len(d) % 4 # 0 THEN Bad(NotEnoughData(1024, Len(d)))
    ELSE LET r == signature(d) IN
         IF r.ok THEN r ELSE Bad(InvalidFileSignature(SubSeq(r.input, 1, 4)))

parse_signature(d) ==
    LET r == signature(d) IN
    IF r.ok THEN r
    ELSE IF Len(r.input) < 4 THEN Bad(NotEnoughData(4, Len(r.input)))
    ELSE Bad(InvalidFileSignature(SubSeq(r.input, 1, 4)))

parse_version(d) ==
    LET r == version_verify(d) IN
    IF r.ok THEN r
    ELSE IF Len(r.input) < 4 THEN Bad(NotEnoughData(4, Len(r.input)))
    ELSE Bad(InvalidVersion(u32_from_le_bytes(SubSeq(r.input, 1, 4))))

\* tuple((le_u32, le_u32, le_u32, u8, u8)): the first failing parser's error
parse_uid_to_controller_count(d) ==
    LET r1 == le_u32(d) IN
    IF ~r1.ok THEN Bad(NotEnoughData(4, Len(r1.input))) ELSE
    LET r2 == le_u32(r1.rest) IN
    IF ~r2.ok THEN Bad(NotEnoughData(4, Len(r2.input))) ELSE
    LET r3 == le_u32(r2.rest) IN
    IF ~r3.ok THEN Bad(NotEnoughData(4, Len(r3.input))) ELSE
    LET r4 == u8(r3.rest) IN
    IF ~r4.ok THEN Bad(NotEnoughData(4, Len(r4.input))) ELSE
    LET r5 == u8(r4.rest) IN
    IF ~r5.ok THEN Bad(NotEnoughData(4, Len(r5.input))) ELSE
    Ok(r5.rest, [uid |-> r1.val, vi_frame_count |-> r2.val, rerecord_count |-> r3.val,
                 fps |-> r4.val, controller_count |-> r5.val])

parse_reserved_0x16(d) ==
    LET r == reserved_check(2, d) IN
    IF r.ok THEN r
    ELSE IF r.code = "Verify" THEN Bad(ReservedNotZero)
    ELSE IF r.code = "Eof" THEN Bad(NotEnoughData(2, Len(r.input)))
    ELSE Bad(Panic)

parse_input_frame_count(d) ==
    LET r == le_u32(d) IN
    IF r.ok THEN r ELSE Bad(NotEnoughData(4, Len(r.input)))

parse_movie_start_type(d) ==
    LET r == movie_start_type(d) IN
    IF r.ok THEN r
    ELSE IF r.code = "MapRes" THEN Bad(InvalidMovieStartType)
    ELSE IF r.code = "Eof" THEN Bad(NotEnoughData(2, Len(r.input)))
    ELSE Bad(Panic)

\* tuple((reserved_check(2), controller_flags, reserved_check(160)))
parse_controller_flags(d) ==
    LET mapped(r) == IF r.code = "Verify" THEN Bad(ReservedNotZero)
                     ELSE IF r.code = "Eof" THEN Bad(NotEnoughData(4, Len(r.input)))
                     ELSE Bad(Panic)
        r1 == reserved_check(2, d)
    IN
    IF ~r1.ok THEN mapped(r1) ELSE
    LET r2 == controller_flags(r1.rest) IN
    IF ~r2.ok THEN mapped(r2) ELSE
    LET r3 == reserved_check(160, r2.rest) IN
    IF ~r3.ok THEN mapped(r3) ELSE
    Ok(r3.rest, r2.val)

parse_rom_internal_name(d) ==
    LET r == array_string(32, d) IN
    IF r.ok
    THEN LET a == ArrayString_from(32, r.val) IN
         IF a.ok THEN Ok(r.rest, a.val) ELSE Bad(Panic)
    ELSE IF r.code = "Eof" THEN Bad(NotEnoughData(32, Len(r.input)))
    ELSE IF r.code = "MapRes" THEN Bad(InvalidString)
    ELSE Bad(Panic)

parse_rom_crc_32(d) ==
    LET r == le_u32(d) IN
    IF r.ok THEN r ELSE Bad(NotEnoughData(4, Len(r.input)))

parse_rom_country_code(d) ==
    LET r == le_u16(d) IN
    IF r.ok THEN r ELSE Bad(NotEnoughData(2, Len(r.input)))

parse_reserved_0xEA(d) ==
    LET r == reserved_check(56, d) IN
    IF r.ok THEN r
    ELSE IF r.code = "Verify" THEN Bad(ReservedNotZero)
    ELSE IF r.code = "Eof" THEN Bad(NotEnoughData(56, Len(r.input)))
    ELSE Bad(Panic)

\* tuple of four array_string_64()
parse_plugins(d) ==
    LET mapped(r) == IF r.code = "Eof" THEN Bad(NotEnoughData(64, Len(r.input)))
                     ELSE IF r.code = "MapRes" THEN Bad(InvalidString)
                     ELSE Bad(Panic)
        r1 == array_string_64(d)
    IN
    IF ~r1.ok THEN mapped(r1) ELSE IF ~r1.val.ok THEN Bad(Panic) ELSE
    LET r2 == array_string_64(r1.rest) IN
    IF ~r2.ok THEN mapped(r2) ELSE IF ~r2.val.ok THEN Bad(Panic) ELSE
    LET r3 == array_string_64(r2.rest) IN
    IF ~r3.ok THEN mapped(r3) ELSE IF ~r3.val.ok THEN Bad(Panic) ELSE
    LET r4 == array_string_64(r3.rest) IN
    IF ~r4.ok THEN mapped(r4) ELSE IF ~r4.val.ok THEN Bad(Panic) ELSE
    Ok(r4.rest, [video_plugin |-> r1.val.val, sound_plugin |-> r2.val.val,
                 input_plugin |-> r3.val.val, rsp_plugin |-> r4.val.val])

parse_author(d) ==
    LET r == array_string(222, d) IN
    IF r.ok
    THEN LET a == ArrayString_from(222, r.val) IN
         IF a.ok THEN Ok(r.rest, a.val) ELSE Bad(Panic)
    ELSE IF r.code = "Eof" THEN Bad(NotEnoughData(64, Len(r.input)))
    ELSE IF r.code = "MapRes" THEN Bad(InvalidString)
    ELSE Bad(Panic)

parse_description(d) ==
    LET r == array_string(256, d) IN
    IF r.ok
    THEN LET a == ArrayString_from(256, r.val) IN
         IF a.ok THEN Ok(r.rest, a.val) ELSE Bad(Panic)
    ELSE IF r.code = "Eof" THEN Bad(NotEnoughData(64, Len(r.input)))
    ELSE IF r.code = "MapRes" THEN Bad(InvalidString)
    ELSE Bad(Panic)

\* many0(input), then the `!data.is_empty()` check
parse_inputs(d) ==
    LET r == many0_input(d, <<>>) IN
    IF ~r.ok THEN Bad(NotEnoughData(4, Len(r.input)))
    ELSE IF Len(r.rest) # 0 THEN Bad(NotEnoughData(4, Len(r.rest)))
    ELSE r

\* the one element of a one-element set
The(S) == CHOOSE x \in S : TRUE

\* M64::from_u8_array: [ok |-> TRUE, val |-> M64] or [ok |-> FALSE, error |-> e].
\* Each `let (data, x) = parser(data)...?;` is written The({ .. : p \in {parser} }),
\* which binds p to the statement's outcome (read from the last line upwards:
\* p1 is the signature, p15 the inputs); `?` returns the first outcome that is
\* an error.
from_u8_array(bytes) ==
    The({ IF ~p1.ok THEN p1 ELSE
    The({ IF ~p2.ok THEN p2 ELSE
    The({ IF ~p3.ok THEN p3 ELSE
    The({ IF ~p4.ok THEN p4 ELSE
    The({ IF ~p5.ok THEN p5 ELSE
    The({ IF ~p6.ok THEN p6 ELSE
    The({ IF ~p7.ok THEN p7 ELSE
    The({ IF ~p8.ok THEN p8 ELSE
    The({ IF ~p9.ok THEN p9 ELSE
    The({ IF ~p10.ok THEN p10 ELSE
    The({ IF ~p11.ok THEN p11 ELSE
    The({ IF ~p12.ok THEN p12 ELSE
    The({ IF ~p13.ok THEN p13 ELSE
    The({ IF ~p14.ok THEN p14 ELSE
    The({ IF ~p15.ok THEN p15 ELSE
    [ok  |-> TRUE,
     val |-> [uid               |-> p3.val.uid,
              vi_frames         |-> p3.val.vi_frame_count,
              rerecords         |-> p3.val.rerecord_count,
              fps               |-> p3.val.fps,
              controller_count  |-> p3.val.controller_count,
              input_frames      |-> p5.val,
              movie_start_type  |-> p6.val,
              controller_flags  |-> p7.val,
              rom_internal_name |-> p8.val,
              rom_crc_32        |-> p9.val,
              rom_country_code  |-> p10.val,
              video_plugin      |-> p12.val.video_plugin,
              sound_plugin      |-> p12.val.sound_plugin,
              input_plugin      |-> p12.val.input_plugin,
              rsp_plugin        |-> p12.val.rsp_plugin,
              author            |-> p13.val,
              description       |-> p14.val,
              inputs            |-> p15.val]]
    : p15 \in {parse_inputs(p14.rest)} })
    : p14 \in {parse_description(p13.rest)} })
    : p13 \in {parse_author(p12.rest)} })
    : p12 \in {parse_plugins(p11.rest)} })
    : p11 \in {parse_reserved_0xEA(p10.rest)} })
    : p10 \in {parse_rom_country_code(p9.rest)} })
    : p9 \in {parse_rom_crc_32(p8.rest)} })
    : p8 \in {parse_rom_internal_name(p7.rest)} })
    : p7 \in {parse_controller_flags(p6.rest)} })
    : p6 \in {parse_movie_start_type(p5.rest)} })
    : p5 \in {parse_input_frame_count(p4.rest)} })
    : p4 \in {parse_reserved_0x16(p3.rest)} })
    : p3 \in {parse_uid_to_controller_count(p2.rest)} })
    : p2 \in {parse_version(p1.rest)} })
    : p1 \in {parse_signature(bytes)} })

---------------------------------------------------------------------------
(* m64.rs: write_m64 *)

\* the country code and start type written with to_be_bytes instead
to_be_bytes_2(v) == <<(v \div 256) % 256, v % 256>>

\* the u32 fields written with to_be_bytes instead
to_be_bytes_4(v) == <<v.hi \div 256, v.hi % 256, v.lo \div 256, v.lo % 256>>

\* u8/u16/u32::to_le_bytes
to_le_bytes_1(v) == <<v % 256>>
to_le_bytes_2(v) == <<v % 256, (v \div 256) % 256>>
to_le_bytes_4(v) == <<v.lo % 256, v.lo \div 256, v.hi % 256, v.hi \div 256>>

\* [0; n]
zeros(n) == [i \in 1..n |-> 0]

\* the `for input in &self.inputs` loop
RECURSIVE write_inputs(_, _)
write_inputs(inputs, k) ==
    IF k > Len(inputs) THEN <<>>
    ELSE to_le_bytes_4(u32_from_Input(inputs[k])) \o write_inputs(inputs, k + 1)

\* M64::write_m64 into an empty Vec<u8> (write_all on a Vec never fails)
write_m64(self) ==
    <<77, 54, 52, 26>>
    \o to_le_bytes_4(u32_of(3))
    \o to_le_bytes_4(self.uid)
    \o to_le_bytes_4(self.vi_frames)
    \o to_le_bytes_4(self.rerecords)
    \o to_le_bytes_1(self.fps)
    \o to_le_bytes_1(self.controller_count)
    \o zeros(2)
    \o to_le_bytes_4(self.input_frames)
    \o to_le_bytes_2(MovieStartType_as_u16(self.movie_start_type))
    \o zeros(2)
    \o to_le_bytes_4(Flags_to_u32(self.controller_flags))
    \o zeros(160)
    \o self.rom_internal_name
    \o to_le_bytes_4(self.rom_crc_32)
    \o to_le_bytes_2(self.rom_country_code)
    \o zeros(56)
    \o self.video_plugin
    \o self.sound_plugin
    \o self.input_plugin
    \o self.rsp_plugin
    \o self.author
    \o self.description
    \o write_inputs(self.inputs, 1)

---------------------------------------------------------------------------
(* The buffers a caller hands to from_u8_array: a well-formed movie, the   *)
(* same movie with one or two bytes overwritten, cut short, or followed by *)
(* input bytes.                                                            *)

\* largest number of bytes after the 1024-byte header
MaxTail == 9

Pad(text, n) == text \o [i \in 1..(n - Len(text)) |-> 0]

\* text of the base movie, as UTF-8 bytes
Base_name ==
    <<83, 85, 80, 69, 82, 32, 77, 65, 82, 73, 79, 32, 54, 52, 32, 32, 32, 32, 32, 32>>
Base_video ==
    <<74, 97, 98, 111, 39, 115, 32, 68, 105, 114, 101, 99, 116, 51, 68, 56, 32, 49, 46, 54>>
Base_sound ==
    <<74, 97, 98, 111, 39, 115, 32, 68, 105, 114, 101, 99, 116, 83, 111, 117, 110, 100, 32, 49, 46, 54>>
Base_inp ==
    <<84, 65, 83, 32, 73, 110, 112, 117, 116, 32, 80, 108, 117, 103, 105, 110, 32, 48, 46, 54>>
Base_rsp ==
    <<82, 83, 80, 32, 101, 109, 117, 108, 97, 116, 105, 111, 110, 32, 80, 108, 117, 103, 105, 110>>
Base_author ==
    <<77, 75, 68, 97, 115, 104, 101, 114, 44, 32, 78, 97, 104, 111, 99, 44, 32, 74, 101, 115, 195, 186, 115, 32, 97, 110, 100, 32, 226, 130, 172, 114, 117>>
Base_desc ==
    <<49, 56, 58, 48, 56, 46, 51, 51, 32, 115, 97, 118, 101, 100, 32, 111, 118, 101, 114, 32, 82, 105, 107, 107, 117, 46, 32, 240, 159, 152, 128>>

BaseHeader ==
    <<77, 54, 52, 26>>                      \* 0x000 signature
    \o <<3, 0, 0, 0>>                       \* 0x004 version
    \o <<255, 70, 220, 75>>                     \* 0x008 uid
    \o <<187, 110, 4, 0>>                      \* 0x00C vi frames
    \o <<110, 155, 32, 0>>                      \* 0x010 rerecords
    \o <<60>>                               \* 0x014 fps
    \o <<1>>                                \* 0x015 controller count
    \o <<0, 0>>                             \* 0x016 reserved
    \o <<2, 0, 0, 0>>                       \* 0x018 input frames
    \o <<2, 0>>                             \* 0x01C movie start type
    \o <<0, 0>>                             \* 0x01E reserved
    \o <<17, 1, 0, 0>>                      \* 0x020 controller flags
    \o Pad(<<>>, 160)                       \* 0x024 reserved
    \o Pad(Base_name, 32)      \* 0x0C4 rom internal name
    \o <<99, 90, 255, 63>>                  \* 0x0E4 rom crc32
    \o <<69, 0>>                            \* 0x0E8 rom country code
    \o Pad(<<>>, 56)                        \* 0x0EA reserved
    \o Pad(Base_video, 64)     \* 0x122 video plugin
    \o Pad(Base_sound, 64)     \* 0x162 sound plugin
    \o Pad(Base_inp, 64)       \* 0x1A2 input plugin
    \o Pad(Base_rsp, 64)       \* 0x1E2 rsp plugin
    \o Pad(Base_author, 222)   \* 0x222 author
    \o Pad(Base_desc, 256)     \* 0x300 description

\* <<offset, byte>>: bytes overwritten in the base header
Mutations ==
    { <<0, 255>>, <<3, 0>>,                               \* signature
      <<4, 4>>, <<7, 1>>,                                 \* version
      <<8, 0>>, <<20, 30>>, <<21, 4>>,                    \* uid, fps, controller count
      <<22, 1>>, <<23, 128>>,                             \* reserved 0x16
      <<24, 7>>, <<27, 255>>,                             \* input frames
      <<28, 0>>, <<28, 1>>, <<28, 3>>, <<28, 4>>, <<28, 5>>, <<29, 1>>,  \* start type
      <<30, 1>>, <<31, 1>>,                               \* reserved 0x1E
      <<32, 255>>, <<33, 15>>, <<33, 16>>, <<35, 128>>,   \* controller flags
      <<36, 1>>, <<195, 1>>,                              \* reserved 0x24
      <<196, 255>>, <<227, 195>>, <<197, 0>>,             \* rom internal name
      <<231, 0>>, <<233, 1>>,                             \* crc32, country code
      <<234, 1>>, <<289, 1>>,                             \* reserved 0xEA
      <<290, 128>>, <<354, 192>>, <<418, 245>>, <<482, 237>>,  \* plugins
      <<546, 255>>, <<767, 226>>,                         \* author
      <<768, 192>>, <<1023, 240>>, <<1000, 65>> }         \* description

\* offsets of the first of two overwritten bytes
FirstOverwritten == {0, 4, 22, 28, 29, 31, 33, 35, 195, 196, 234, 354, 767}

Overwrite(h, m) == [h EXCEPT ![m[1] + 1] = m[2]]

HeadersOne == {BaseHeader} \cup {Overwrite(BaseHeader, m) : m \in Mutations}

HeadersTwo ==
    HeadersOne \cup
    {Overwrite(Overwrite(BaseHeader, m1), m2) :
        m1 \in {m \in Mutations : m[1] \in FirstOverwritten}, m2 \in Mutations}

\* input bytes following the header, repeated as often as needed
TailPatterns ==
    << <<128, 0, 246, 55, 0, 3, 125, 131>>,
       <<255, 255, 128, 127, 55, 0, 128, 0>> >>

InputTail(p, k) == [i \in 1..k |-> TailPatterns[p][((i - 1) % 8) + 1]]

\* lengths a cut-short buffer can have: around every field boundary
CutPoints ==
    {0, 1, 3, 4, 5, 6, 7, 8, 10, 12, 16, 19, 20, 21, 22, 23, 24, 26, 28, 29, 30,
     31, 32, 34, 36, 100, 195, 196, 227, 228, 230, 232, 233, 234, 289, 290,
     353, 354, 418, 450, 482, 545, 546, 610, 767, 768, 832, 1023}

\* whole headers followed by 0..MaxTail input bytes (one overwritten byte at
\* most), headers with two overwritten bytes alone or with two stray bytes,
\* and cut-short headers
Buffers ==
    {h \o InputTail(p, k) : h \in HeadersOne, p \in {1, 2}, k \in 0..MaxTail}
    \cup {h \o InputTail(1, k) : h \in HeadersTwo, k \in {0, 2}}
    \cup {SubSeq(h, 1, n) : h \in HeadersOne, n \in CutPoints}

---------------------------------------------------------------------------
(* M64 values a caller builds field by field (every field is `pub`) *)

NoFlags == [controller_present |-> FALSE, has_mempak |-> FALSE, has_rumblepak |-> FALSE]

BuiltTexts(cap) == {<<>>, <<77, 54, 52>>, Pad(<<195, 169, 65>>, cap)}

BuiltInputs ==
    { <<>>,
      <<Input_default>>,
      <<[Input_default EXCEPT !.a_button = TRUE, !.x_axis = -10, !.y_axis = 55],
        [Input_default EXCEPT !.reserved_1 = TRUE, !.reserved_2 = TRUE, !.y_axis = -128]>> }

BuiltFlags ==
    { [k \in 1..4 |-> NoFlags],
      [k \in 1..4 |-> IF k = 1 THEN [NoFlags EXCEPT !.controller_present = TRUE,
                                                    !.has_rumblepak = TRUE]
                      ELSE IF k = 4 THEN [NoFlags EXCEPT !.has_mempak = TRUE]
                      ELSE NoFlags] }

---------------------------------------------------------------------------
(* The caller: decode a buffer or build a value, then write it *)

None == <<>>
Some(x) == <<x>>

Init ==
    /\ pc = "start"
    /\ data \in Buffers
    /\ m64 = None
    /\ err = None
    /\ written = <<>>
    /\ cin = None /\ cmid = None /\ cout = None /\ cpc = "off"

\* let m64 = M64::from_u8_array(&data)
Decode ==
    /\ pc = "start"
    /\ \E r \in {from_u8_array(data)} :
          IF r.ok
          THEN /\ m64' = Some(r.val) /\ err' = None /\ pc' = "decoded"
          ELSE /\ m64' = None /\ err' = Some(r.error) /\ pc' = "failed"
    /\ UNCHANGED <<data, written, cin, cmid, cout, cpc>>

\* M64 { .. } built by the caller, who has no buffer to decode
Construct ==
    /\ pc = "start"
    /\ data = <<>>
    /\ \E name \in BuiltTexts(32), plugin \in BuiltTexts(64), author \in BuiltTexts(222),
          description \in BuiltTexts(256),
          start_type \in {MovieStartType_default, "SnapShot", "Eeprom"},
          flags \in BuiltFlags, inputs \in BuiltInputs, frames \in {0, 2} :
          m64' = Some([uid               |-> u32(19420, 18175),
                       vi_frames         |-> u32(4, 28347),
                       rerecords         |-> u32_of(0),
                       fps               |-> 60,
                       controller_count  |-> 1,
                       input_frames      |-> u32_of(frames),
                       movie_start_type  |-> start_type,
                       controller_flags  |-> flags,
                       rom_internal_name |-> name,
                       rom_crc_32        |-> u32(65535, 65535),
                       rom_country_code  |-> 69,
                       video_plugin      |-> plugin,
                       sound_plugin      |-> plugin,
                       input_plugin      |-> plugin,
                       rsp_plugin        |-> plugin,
                       author            |-> author,
                       description       |-> description,
                       inputs            |-> inputs])
    /\ pc' = "built"
    /\ UNCHANGED <<data, err, written, cin, cmid, cout, cpc>>

\* m64.write_m64(&mut Vec::new())
Write ==
    /\ pc \in {"decoded", "built"}
    /\ written' = write_m64(m64[1])
    /\ pc' = IF pc = "decoded" THEN "rewritten" ELSE "written"
    /\ UNCHANGED <<data, m64, err, cin, cmid, cout, cpc>>

Next == Decode \/ Construct \/ Write

Spec == Init /\ [][Next]_vars

---------------------------------------------------------------------------
(* Runs of the bitfield codecs alone: an argument is converted, and the    *)
(* result converted back.                                                  *)

HalfWords ==
    {0, 65535, 14326, 128, 33661, 768, 55}
    \cup {2 ^ i : i \in 0..15} \cup {65535 - (2 ^ i) : i \in 0..15}

CodecWords == {u32(h, l) : h \in HalfWords, l \in HalfWords}

ButtonNames ==
    {"right_dpad", "left_dpad", "down_dpad", "up_dpad", "start", "z_button", "b_button",
     "a_button", "right_cbutton", "left_cbutton", "down_cbutton", "up_cbutton",
     "right_shoulder", "left_shoulder", "reserved_1", "reserved_2"}

ButtonSets ==
    {{}, ButtonNames, {"left_cbutton", "right_cbutton"}, {"reserved_1", "reserved_2"}}
    \cup {{n} : n \in ButtonNames} \cup {ButtonNames \ {n} : n \in ButtonNames}

Axes == {-128, -127, -125, -10, -1, 0, 1, 55, 125, 127}

InputOf(pressed, x, y) ==
    [right_dpad     |-> "right_dpad" \in pressed,
     left_dpad      |-> "left_dpad" \in pressed,
     down_dpad      |-> "down_dpad" \in pressed,
     up_dpad        |-> "up_dpad" \in pressed,
     start          |-> "start" \in pressed,
     z_button       |-> "z_button" \in pressed,
     b_button       |-> "b_button" \in pressed,
     a_button       |-> "a_button" \in pressed,
     right_cbutton  |-> "right_cbutton" \in pressed,
     left_cbutton   |-> "left_cbutton" \in pressed,
     down_cbutton   |-> "down_cbutton" \in pressed,
     up_cbutton     |-> "up_cbutton" \in pressed,
     right_shoulder |-> "right_shoulder" \in pressed,
     left_shoulder  |-> "left_shoulder" \in pressed,
     reserved_1     |-> "reserved_1" \in pressed,
     reserved_2     |-> "reserved_2" \in pressed,
     x_axis         |-> x,
     y_axis         |-> y]

CodecInputs == {InputOf(p, x, y) : p \in ButtonSets, x \in Axes, y \in Axes}

\* raw controller-status words: every 12-bit word, and words with higher bits set
StatusWords ==
    {u32(0, l) : l \in 0..4095}
    \cup {u32(h, l) : h \in HalfWords, l \in {0, 1, 273, 4095, 4096, 61440, 61713, 65535}}

AllFlags ==
    [controller_present : BOOLEAN, has_mempak : BOOLEAN, has_rumblepak : BOOLEAN]

FlagArrays == [1..4 -> AllFlags]

Arg(ty, v) == [ty |-> ty, v |-> v]

InitCodec ==
    /\ pc = "off" /\ data = <<>> /\ m64 = None /\ err = None /\ written = <<>>
    /\ \/ cin \in {Some(Arg("word", w)) : w \in CodecWords}
       \/ cin \in {Some(Arg("input", i)) : i \in CodecInputs}
       \/ cin \in {Some(Arg("status", w)) : w \in StatusWords}
       \/ cin \in {Some(Arg("flags", f)) : f \in FlagArrays}
    /\ cmid = None
    /\ cout = None
    /\ cpc = "arg"

\* Input::from(word)
InputFromU32 ==
    /\ \/ /\ cpc = "arg" /\ cin[1].ty = "word"
          /\ cmid' = Some(Input_from_u32(cin[1].v)) /\ cout' = cout /\ cpc' = "once"
       \/ /\ cpc = "once" /\ cin[1].ty = "input"
          /\ cout' = Some(Input_from_u32(cmid[1])) /\ cmid' = cmid /\ cpc' = "twice"
    /\ UNCHANGED <<pc, data, m64, err, written, cin>>

\* u32::from(input)
U32FromInput ==
    /\ \/ /\ cpc = "arg" /\ cin[1].ty = "input"
          /\ cmid' = Some(u32_from_Input(cin[1].v)) /\ cout' = cout /\ cpc' = "once"
       \/ /\ cpc = "once" /\ cin[1].ty = "word"
          /\ cout' = Some(u32_from_Input(cmid[1])) /\ cmid' = cmid /\ cpc' = "twice"
    /\ UNCHANGED <<pc, data, m64, err, written, cin>>

\* Flags::from_u32(word)
FlagsFromU32 ==
    /\ \/ /\ cpc = "arg" /\ cin[1].ty = "status"
          /\ cmid' = Some(Flags_from_u32(cin[1].v)) /\ cout' = cout /\ cpc' = "once"
       \/ /\ cpc = "once" /\ cin[1].ty = "flags"
          /\ cout' = Some(Flags_from_u32(cmid[1])) /\ cmid' = cmid /\ cpc' = "twice"
    /\ UNCHANGED <<pc, data, m64, err, written, cin>>

\* Flags::to_u32(&flags)
FlagsToU32 ==
    /\ \/ /\ cpc = "arg" /\ cin[1].ty = "flags"
          /\ cmid' = Some(Flags_to_u32(cin[1].v)) /\ cout' = cout /\ cpc' = "once"
       \/ /\ cpc = "once" /\ cin[1].ty = "status"
          /\ cout' = Some(Flags_to_u32(cmid[1])) /\ cmid' = cmid /\ cpc' = "twice"
    /\ UNCHANGED <<pc, data, m64, err, written, cin>>

NextCodec == InputFromU32 \/ U32FromInput \/ FlagsFromU32 \/ FlagsToU32

SpecCodec == InitCodec /\ [][NextCodec]_vars

---------------------------------------------------------------------------
(* The header layout the properties are stated against: every field with   *)
(* its offset, width and the rule a reader applies to it.                  *)

Layout ==
    << [name |-> "signature",         at |-> 0,   width |-> 4,   rule |-> "signature"],
       [name |-> "version",           at |-> 4,   width |-> 4,   rule |-> "version"],
       [name |-> "uid",               at |-> 8,   width |-> 4,   rule |-> "none"],
       [name |-> "vi_frames",         at |-> 12,  width |-> 4,   rule |-> "none"],
       [name |-> "rerecords",         at |-> 16,  width |-> 4,   rule |-> "none"],
       [name |-> "fps",               at |-> 20,  width |-> 1,   rule |-> "none"],
       [name |-> "controller_count",  at |-> 21,  width |-> 1,   rule |-> "none"],
       [name |-> "reserved_0x16",     at |-> 22,  width |-> 2,   rule |-> "reserved"],
       [name |-> "input_frames",      at |-> 24,  width |-> 4,   rule |-> "none"],
       [name |-> "movie_start_type",  at |-> 28,  width |-> 2,   rule |-> "start_type"],
       [name |-> "reserved_0x1E",     at |-> 30,  width |-> 2,   rule |-> "reserved"],
       [name |-> "controller_flags",  at |-> 32,  width |-> 4,   rule |-> "none"],
       [name |-> "reserved_0x24",     at |-> 36,  width |-> 160, rule |-> "reserved"],
       [name |-> "rom_internal_name", at |-> 196, width |-> 32,  rule |-> "text"],
       [name |-> "rom_crc_32",        at |-> 228, width |-> 4,   rule |-> "none"],
       [name |-> "rom_country_code",  at |-> 232, width |-> 2,   rule |-> "none"],
       [name |-> "reserved_0xEA",     at |-> 234, width |-> 56,  rule |-> "reserved"],
       [name |-> "video_plugin",      at |-> 290, width |-> 64,  rule |-> "text"],
       [name |-> "sound_plugin",      at |-> 354, width |-> 64,  rule |-> "text"],
       [name |-> "input_plugin",      at |-> 418, width |-> 64,  rule |-> "text"],
       [name |-> "rsp_plugin",        at |-> 482, width |-> 64,  rule |-> "text"],
       [name |-> "author",            at |-> 546, width |-> 222, rule |-> "text"],
       [name |-> "description",       at |-> 768, width |-> 256, rule |-> "text"] >>

FieldBytes(d, f) == SubSeq(d, f.at + 1, f.at + f.width)

\* the whole field lies inside the buffer
Present(d, f) == Len(d) >= f.at + f.width

\* the field is there and breaks its rule
Broken(d, f) ==
    /\ Present(d, f)
    /\ LET b == FieldBytes(d, f) IN
       CASE f.rule = "signature"  -> b # <<77, 54, 52, 26>>
         [] f.rule = "version"    -> b # <<3, 0, 0, 0>>
         [] f.rule = "reserved"   -> \E i \in 1..Len(b) : b[i] # 0
         [] f.rule = "start_type" -> (b[1] + 256 * b[2]) \notin {1, 2, 4}
         [] f.rule = "text"       -> ~utf8_valid(b)
         [] OTHER                 -> FALSE

\* the error a broken rule is reported with
ErrorKindOf(rule) ==
    CASE rule = "signature"  -> "InvalidFileSignature"
      [] rule = "version"    -> "InvalidVersion"
      [] rule = "reserved"   -> "ReservedNotZero"
      [] rule = "start_type" -> "InvalidMovieStartType"
      [] rule = "text"       -> "InvalidString"

BrokenFields(d) == {i \in 1..Len(Layout) : Broken(d, Layout[i])}

\* index in Layout of the broken field with the lowest offset, 0 when none is broken
FirstBroken(d) ==
    LET bs == BrokenFields(d) IN
    IF bs = {} THEN 0 ELSE CHOOSE i \in bs : \A j \in bs : i <= j

\* index in Layout of the field the buffer ends in or before, 0 for a whole header
CutField(d) ==
    LET cut == {i \in 1..Len(Layout) : ~Present(d, Layout[i])} IN
    IF cut = {} THEN 0 ELSE CHOOSE i \in cut : \A j \in cut : i <= j

\* a whole header that breaks no rule
HeaderValid(d) == Len(d) >= 1024 /\ BrokenFields(d) = {}

Decoded == pc \in {"decoded", "rewritten"}

\* every field before Layout[i] is there and keeps its rule
EarlierValid(d, i) == \A j \in 1..(i - 1) : Present(d, Layout[j]) /\ ~Broken(d, Layout[j])

Returned == pc \in {"failed", "decoded", "rewritten"}

---------------------------------------------------------------------------
(* Properties *)

\* C1 as stated: every buffer that decodes is written back byte for byte.
C1_RoundTripEveryBuffer == pc = "rewritten" => written = data

\* bits 12..31 of the controller-flags word at 0x20 are clear
FlagsWordCanonical(d) == d[34] < 16 /\ d[35] = 0 /\ d[36] = 0

\* C1 (amended): a buffer that decodes and whose controller-flags word has
\* bits 12..31 clear is written back byte for byte: same length, same byte at
\* every offset, zero padding inside the text fields included.
C1_RoundTrip == (pc = "rewritten" /\ FlagsWordCanonical(data)) => written = data

\* a movie with two samples and a letter after the zero padding of its
\* description has been decoded and written back unchanged
C1_Witness ==
    /\ pc = "rewritten"
    /\ Len(data) = 1032
    /\ data[1000] = 0 /\ data[1001] = 65
    /\ FlagsWordCanonical(data)
    /\ written = data

\* v is an Input: sixteen booleans and two i8 axes
IsInput(v) ==
    /\ DOMAIN v = ButtonNames \cup {"x_axis", "y_axis"}
    /\ \A n \in ButtonNames : v[n] \in BOOLEAN
    /\ v.x_axis \in -128..127
    /\ v.y_axis \in -128..127

\* v is a u32
IsU32(v) == DOMAIN v = {"hi", "lo"} /\ v.hi \in 0..65535 /\ v.lo \in 0..65535

\* C2: u32::from(Input::from(w)) = w for every word w, Input::from(u32::from(s)) = s
\* for every Input s, negative axes included; both conversions always yield a
\* value of the target type.
C2_InputInvolution ==
    /\ (cin # None /\ cin[1].ty = "word" /\ cpc # "arg") => IsInput(cmid[1])
    /\ (cin # None /\ cin[1].ty = "input" /\ cpc # "arg") => IsU32(cmid[1])
    /\ (cin # None /\ cin[1].ty \in {"word", "input"} /\ cpc = "twice") => cout[1] = cin[1].v

\* an Input with both axes negative (x = -10, y = -128) went through u32::from,
\* which gave 0x80F6 as the high half, and Input::from, and came back equal
C2_Witness ==
    /\ cpc = "twice"
    /\ cin[1].ty = "input"
    /\ cin[1].v.x_axis = -10 /\ cin[1].v.y_axis = -128
    /\ cin[1].v.reserved_2 /\ cin[1].v.right_dpad
    /\ cmid[1].hi = 33014
    /\ cout[1] = cin[1].v

\* bit n (0..31) of a u32
BitOf(w, n) ==
    IF n < 16 THEN (w.lo \div (2 ^ n)) % 2 = 1 ELSE (w.hi \div (2 ^ (n - 16))) % 2 = 1

\* C3: Flags::from_u32 reads bit i as controller_present, bit i+4 as has_mempak and
\* bit i+8 as has_rumblepak of slot i; to_u32(from_u32(w)) is w with bits 12..31
\* cleared; from_u32(to_u32(f)) = f for every array f of four Flags.
C3_FlagsCodec ==
    /\ (cin # None /\ cin[1].ty = "status" /\ cpc # "arg") =>
          \A i \in 0..3 :
              /\ cmid[1][i + 1].controller_present = BitOf(cin[1].v, i)
              /\ cmid[1][i + 1].has_mempak = BitOf(cin[1].v, i + 4)
              /\ cmid[1][i + 1].has_rumblepak = BitOf(cin[1].v, i + 8)
    /\ (cin # None /\ cin[1].ty = "status" /\ cpc = "twice") =>
          cout[1] = u32(0, cin[1].v.lo % 4096)
    /\ (cin # None /\ cin[1].ty = "flags" /\ cpc # "arg") =>
          (cmid[1].hi = 0 /\ cmid[1].lo \in 0..4095)
    /\ (cin # None /\ cin[1].ty = "flags" /\ cpc = "twice") => cout[1] = cin[1].v

\* a status word with bits above 11 set was decoded and encoded again, and
\* only its low 12 bits came back
C3_Witness ==
    /\ cpc = "twice"
    /\ cin[1].ty = "status"
    /\ cin[1].v = u32(65535, 61440 + 273)
    /\ cmid[1][1].controller_present /\ cmid[1][1].has_mempak /\ cmid[1][1].has_rumblepak
    /\ ~cmid[1][2].controller_present
    /\ cout[1] = u32(0, 273)

\* C4 as stated: write_m64 emits 1024 + 4 * inputs.len() bytes for every M64,
\* decoded or built field by field.
C4_EncodedLength ==
    pc \in {"written", "rewritten"} => Len(written) = 1024 + 4 * Len(m64[1].inputs)

\* C5: the error from_u8_array returns is the one of the broken field with the
\* lowest offset, whatever else is wrong after it; a bad signature with a bad
\* version is reported as the signature error; a buffer with a broken field is
\* never decoded.
C5_FirstFieldWins ==
    /\ (pc = "failed" /\ FirstBroken(data) # 0) =>
          err[1].kind = ErrorKindOf(Layout[FirstBroken(data)].rule)
    /\ (pc = "failed" /\ Broken(data, Layout[1]) /\ Broken(data, Layout[2])) =>
          /\ err[1].kind = "InvalidFileSignature"
          /\ err[1].kind # "InvalidVersion"
    /\ (Returned /\ FirstBroken(data) # 0) => pc = "failed"

\* a buffer with a wrong signature and a wrong version failed with the
\* signature error
C5_Witness ==
    /\ pc = "failed"
    /\ Len(data) >= 1024
    /\ data[1] = 255 /\ data[5] = 4
    /\ BrokenFields(data) = {1, 2}
    /\ err[1] = InvalidFileSignature(<<255, 54, 52, 26>>)

\* C6: with every earlier field valid, the code at 0x1C is rejected with
\* InvalidMovieStartType exactly when it is not 1, 2 or 4; an accepted code
\* decodes to SnapShot, PowerOn or Eeprom and write_m64 writes the same code
\* back; a built M64 with the default start type is written with code 2.
C6_StartType ==
    /\ (Returned /\ Len(data) >= 30 /\ EarlierValid(data, 10)) =>
          LET code == data[29] + 256 * data[30] IN
          /\ (code \notin {1, 2, 4}) <=> (pc = "failed" /\ err[1] = InvalidMovieStartType)
          /\ Decoded => m64[1].movie_start_type =
                            (IF code = 1 THEN "SnapShot"
                             ELSE IF code = 2 THEN "PowerOn" ELSE "Eeprom")
          /\ pc = "rewritten" => SubSeq(written, 29, 30) = SubSeq(data, 29, 30)
    /\ (pc = "written" /\ m64[1].movie_start_type = MovieStartType_default) =>
          SubSeq(written, 29, 30) = <<2, 0>>
    /\ (pc = "written" /\ m64[1].movie_start_type = "SnapShot") =>
          SubSeq(written, 29, 30) = <<1, 0>>
    /\ (pc = "written" /\ m64[1].movie_start_type = "Eeprom") =>
          SubSeq(written, 29, 30) = <<4, 0>>

\* a whole movie whose only fault is start type 3 failed with InvalidMovieStartType
C6_Witness ==
    /\ pc = "failed"
    /\ Len(data) >= 1024
    /\ data[29] = 3 /\ data[30] = 0
    /\ BrokenFields(data) = {10}
    /\ err[1] = InvalidMovieStartType

\* C7 as stated: ReservedNotZero carries the offset of the reserved region that
\* is not zero, and the invalid-string error names the text field.
C7_FieldAttributed ==
    (pc = "failed" /\ FirstBroken(data) # 0) =>
        LET f == Layout[FirstBroken(data)] IN
        /\ f.rule = "reserved" =>
              /\ err[1].kind = "ReservedNotZero"
              /\ "offset" \in DOMAIN err[1]
              /\ err[1].offset = f.at
        /\ f.rule = "text" =>
              /\ err[1].kind = "InvalidString"
              /\ "field" \in DOMAIN err[1]
              /\ err[1].field = f.name

\* C8 as stated: a valid header followed by a number of bytes that is not a
\* multiple of 4 fails with the misalignment error, which carries the number of
\* leftover bytes; no M64 is returned.
C8_Misaligned ==
    (Returned /\ HeaderValid(data) /\ (Len(data) - 1024) % 4 # 0) =>
        /\ pc = "failed"
        /\ m64 = None
        /\ err[1].kind = "InputNot4BytesAligned"
        /\ "size" \in DOMAIN err[1]
        /\ err[1].size = (Len(data) - 1024) % 4

\* the little-endian u32 at file offset off
WordAt(d, off) == u32(d[off + 3] + 256 * d[off + 4], d[off + 1] + 256 * d[off + 2])

\* C9: a valid header followed by 4n bytes decodes to exactly n samples, the
\* k-th being Input::from of the little-endian word at 0x400 + 4k, in file
\* order; n = 0 gives no samples; the header's input_frames plays no part.
C9_InputStream ==
    (Returned /\ HeaderValid(data) /\ (Len(data) - 1024) % 4 = 0) =>
        LET n == (Len(data) - 1024) \div 4 IN
        /\ Decoded
        /\ Len(m64[1].inputs) = n
        /\ \A k \in 0..(n - 1) :
               m64[1].inputs[k + 1] = Input_from_u32(WordAt(data, 1024 + 4 * k))
        /\ m64[1].input_frames = WordAt(data, 24)

\* a movie whose header announces 7 input frames and which holds 2 samples
\* decoded to those 2 samples, in order
C9_Witness ==
    /\ pc = "decoded"
    /\ Len(data) = 1032
    /\ m64[1].input_frames = u32_of(7)
    /\ m64[1].inputs = <<InputOf({"a_button"}, -10, 55),
                         InputOf({"left_cbutton", "right_cbutton"}, 125, -125)>>

\* C10 as stated: a buffer that ends inside or before a header field, every
\* earlier field being valid, fails with the not-enough-bytes error, and the
\* bytes it reports as still required are the field's width minus the bytes
\* there are from the field's start.
C10_TruncationRequires ==
    (pc = "failed" /\ CutField(data) # 0 /\ FirstBroken(data) = 0) =>
        LET f == Layout[CutField(data)] IN
        /\ err[1].kind = "NotEnoughData"
        /\ err[1].expected - err[1].actual = f.width - (Len(data) - f.at)

\* the buffer is shorter than the 1024-byte header, or its length is not a
\* multiple of 4
BadShape(d) == Len(d) < 1024 \/ Len(d) % 4 # 0

ButtonOrder ==
    <<"right_dpad", "left_dpad", "down_dpad", "up_dpad", "start", "z_button", "b_button",
      "a_button", "right_cbutton", "left_cbutton", "down_cbutton", "up_cbutton",
      "right_shoulder", "left_shoulder", "reserved_1", "reserved_2">>

\* a byte read as a signed 8-bit value
SignedByte(b) == IF b >= 128 THEN b - 256 ELSE b

\* 0x37F60080 and 0x837D0300, and the samples they stand for
WordA == u32(14326, 128)
WordB == u32(33661, 768)
SampleA == InputOf({"a_button"}, -10, 55)
SampleB == InputOf({"left_cbutton", "right_cbutton"}, 125, -125)

WordS == u32(128, 55)

\* C13 as stated: 0x00800037 decodes to a sample with x_axis = -10 and
\* y_axis = 55, and that sample encodes to 0x00800037.
C13_ScenarioAsStated ==
    (cin # None /\ cin[1].ty = "word" /\ cin[1].v = WordS /\ cpc # "arg") =>
        (cmid[1].x_axis = -10 /\ cmid[1].y_axis = 55)

\* C13 (amended): 0x00800037 decodes to the sample with right_dpad, left_dpad,
\* down_dpad, start and z_button pressed, x_axis = -128 and y_axis = 0, and that
\* sample encodes to 0x00800037; a word decodes to x_axis = -10 and y_axis = 55
\* only when its high half is 0x37F6.
C13_Scenario ==
    /\ (cin # None /\ cin[1].ty = "word" /\ cin[1].v = WordS /\ cpc # "arg") =>
          cmid[1] = InputOf({"right_dpad", "left_dpad", "down_dpad", "start", "z_button"},
                            -128, 0)
    /\ (cin # None /\ cin[1].ty = "word" /\ cin[1].v = WordS /\ cpc = "twice") =>
          cout[1] = WordS
    /\ (cin # None /\ cin[1].ty = "word" /\ cpc # "arg"
          /\ cmid[1].x_axis = -10 /\ cmid[1].y_axis = 55) =>
          cin[1].v.hi = 14326

\* 0x00800037 was decoded, to x = -128 and y = 0 with Start pressed and A not,
\* and encoded back to 0x00800037
C13_Witness ==
    /\ cpc = "twice"
    /\ cin[1].ty = "word"
    /\ cin[1].v = WordS
    /\ cmid[1].x_axis = -128 /\ cmid[1].y_axis = 0
    /\ cmid[1].start /\ ~cmid[1].a_button
    /\ cout[1] = WordS

\* the first min(4, len) bytes of a buffer
SignaturePrefix(d) == SubSeq(d, 1, IF Len(d) < 4 THEN Len(d) ELSE 4)

\* C14 as stated: a buffer that does not start with 4D 36 34 1A, one shorter
\* than 4 bytes included, fails with the signature error carrying its first
\* min(4, len) bytes: the three bytes of a 3-byte buffer, no byte for the
\* empty buffer.
C14_SignaturePayload ==
    (Returned /\ SignaturePrefix(data) # <<77, 54, 52, 26>>) =>
        /\ pc = "failed"
        /\ err[1].kind = "InvalidFileSignature"
        /\ err[1].bytes = SignaturePrefix(data)

\* the sixteen buttons in the order of the masks 0x0001 .. 0x8000 of the doc
\* comment of Input
DocumentedOrder ==
    <<"right_cbutton", "left_cbutton", "down_cbutton", "up_cbutton", "right_shoulder",
      "left_shoulder", "reserved_1", "reserved_2", "right_dpad", "left_dpad", "down_dpad",
      "up_dpad", "start", "z_button", "b_button", "a_button">>

\* the word holding the single mask 2^k
MaskWord(k) == u32(0, 2 ^ k)

\* the arguments of this run are a single mask and the Input it decodes to, or
\* an Input with one button pressed and centred axes and the word it encodes to
SingleMaskDecoded(k) ==
    cin # None /\ cin[1].ty = "word" /\ cin[1].v = MaskWord(k) /\ cpc # "arg"
SingleButtonEncoded(n) ==
    cin # None /\ cin[1].ty = "input" /\ cin[1].v = InputOf({n}, 0, 0) /\ cpc # "arg"

ErrorKinds ==
    {"InvalidFileSignature", "InvalidVersion", "ReservedNotZero", "NotEnoughData",
     "InvalidMovieStartType", "InvalidString"}

\* the fields of M64
M64Fields ==
    {"uid", "vi_frames", "rerecords", "fps", "controller_count", "input_frames",
     "movie_start_type", "controller_flags", "rom_internal_name", "rom_crc_32",
     "rom_country_code", "video_plugin", "sound_plugin", "input_plugin", "rsp_plugin",
     "author", "description", "inputs"}

\* C16: from_u8_array returns Ok(M64) or Err(M64ParseError) for every buffer:
\* no buffer reaches an unimplemented!() arm or a failing unwrap() (a panic),
\* an error comes with no M64, and an M64 comes whole with no error.
C16_DecodeTotal ==
    Returned =>
        /\ pc = "failed" =>
              /\ m64 = None
              /\ Len(err) = 1
              /\ err[1].kind \in ErrorKinds
        /\ Decoded =>
              /\ err = None
              /\ Len(m64) = 1
              /\ DOMAIN m64[1] = M64Fields
              /\ Len(m64[1].rom_internal_name) = 32
              /\ Len(m64[1].author) = 222
              /\ Len(m64[1].description) = 256
              /\ \A f \in {"video_plugin", "sound_plugin", "input_plugin", "rsp_plugin"} :
                     Len(m64[1][f]) = 64

\* a movie with two samples was decoded whole: its description, a 4-byte
\* character and the zero padding included, fills the ArrayString<256> to its
\* capacity, the case in which ArrayString::from(..).unwrap() is nearest to
\* failing
C16_Witness ==
    /\ pc = "decoded"
    /\ err = None
    /\ Len(m64[1].description) = 256
    /\ m64[1].description[28] = 240
    /\ m64[1].description[256] = 0
    /\ Len(m64[1].inputs) = 2

\* offset in the output of the 56-byte reserved region: it follows the
\* internal name, the CRC and the country code
Reserved56At(v) == 196 + Len(v.rom_internal_name) + 4 + 2

\* C17: for every M64, decoded or built, write_m64 starts with 4D 36 34 1A and
\* the little-endian version 3, writes the fields in the order of decoding
\* (uid, frame counts, fps and controller count, input frames, start type,
\* flags, internal name, CRC, country code, plugins, author, description,
\* inputs) and writes zeros for the reserved regions of 2, 2, 160 and 56
\* bytes, whatever the fields hold.
C17_FixedValues ==
    pc \in {"written", "rewritten"} =>
        LET w == written
            v == m64[1]
            r == Reserved56At(v)
            n == 4 * Len(v.inputs)
        IN  /\ SubSeq(w, 1, 4) = <<77, 54, 52, 26>>
            /\ SubSeq(w, 5, 8) = <<3, 0, 0, 0>>
            /\ SubSeq(w, 9, 12) = <<v.uid.lo % 256, v.uid.lo \div 256,
                                     v.uid.hi % 256, v.uid.hi \div 256>>
            /\ w[21] = v.fps /\ w[22] = v.controller_count
            /\ SubSeq(w, 23, 24) = <<0, 0>>
            /\ w[25] = v.input_frames.lo % 256
            /\ w[29] = MovieStartType_as_u16(v.movie_start_type) /\ w[30] = 0
            /\ SubSeq(w, 31, 32) = <<0, 0>>
            /\ \A i \in 37..196 : w[i] = 0
            /\ SubSeq(w, 197, r - 6) = v.rom_internal_name
            /\ SubSeq(w, r - 1, r) = <<v.rom_country_code % 256, v.rom_country_code \div 256>>
            /\ \A i \in (r + 1)..(r + 56) : w[i] = 0
            /\ SubSeq(w, r + 57, r + 56 + Len(v.video_plugin)) = v.video_plugin
            /\ SubSeq(w, Len(w) - n - Len(v.description) + 1, Len(w) - n) = v.description
            /\ Len(w) = r + 56 + Len(v.video_plugin) + Len(v.sound_plugin)
                         + Len(v.input_plugin) + Len(v.rsp_plugin) + Len(v.author)
                         + Len(v.description) + n
            /\ \A k \in 1..Len(v.inputs) :
                   Input_from_u32(WordAt(w, Len(w) - n + 4 * (k - 1))) = v.inputs[k]

\* a built movie with a 3-byte internal name, rumble pak and mem pak flags and
\* two samples was written: the 56 reserved bytes follow the shorter name
C17_Witness ==
    /\ pc = "written"
    /\ Len(m64[1].rom_internal_name) = 3
    /\ m64[1].controller_flags[4].has_mempak
    /\ Len(m64[1].inputs) = 2
    /\ Reserved56At(m64[1]) = 205
    /\ SubSeq(written, 197, 199) = <<77, 54, 52>>
    /\ \A i \in 206..261 : written[i] = 0

====
